---- MODULE Spec2Model ----
(***************************************************************************)
(* Model of the chat endpoint src/app/api/chat/route.ts: the OPTIONS       *)
(* preflight and the POST handler (validate, two store reads joined by     *)
(* Promise.all, merge/dedup/cap, context formatting, prompt assembly, one  *)
(* completion call, answer extraction, top-level catch).                   *)
(*                                                                         *)
(* JavaScript values are tagged records; JavaScript strings are sequences  *)
(* of tokens (one-character strings where the code slices, trims or joins  *)
(* on characters; a literal of the source is a token of its own).          *)
(***************************************************************************)
EXTENDS Integers, Sequences, FiniteSets, TLC

VARIABLES pc, method, reqBody, env, essentialsRes, searchRes, data,
          messages, resp, response, storeReads, fetchCalls, nResponses

vars == <<pc, method, reqBody, env, essentialsRes, searchRes, data,
          messages, resp, response, storeReads, fetchCalls, nResponses>>

\* ------------------------------------------------------------ bounds

\* The row pool is read in windows that start every StartStep rows.
StartStep == 3
\* Number of window starts the merge specification draws from.
NumStarts == 10
\* Longest conversation history a request carries.
MaxHist == 7

\* -------------------------------------------------- program constants

\* .limit(12) of both store reads
Limit == 12
\* .slice(0, 16) of the merged rows
Cap == 16
\* (r.content ?? "").slice(0, 60) of the composite key
KeyLen == 60
\* .slice(-6) of the conversation history
HistKeep == 6

\* ------------------------------------------------- JavaScript values

Undef == [t |-> "undefined"]
JNull == [t |-> "null"]
JStr(s) == [t |-> "string", s |-> s]
JNum(n) == [t |-> "number", n |-> n]
JArr(a) == [t |-> "array", a |-> a]
JObj(f) == [t |-> "object", f |-> f]

Nullish(v) == v.t \in {"undefined", "null"}

\* v ?? d
Coalesce(v, d) == IF Nullish(v) THEN d ELSE v

\* !!v
Truthy(v) ==
  CASE v.t \in {"undefined", "null"} -> FALSE
    [] v.t = "string" -> v.s # <<>>
    [] v.t = "number" -> v.n # 0
    [] OTHER -> TRUE

\* v.k for a v that is neither null nor undefined
Get(v, k) == IF v.t = "object" /\ k \in DOMAIN v.f THEN v.f[k] ELSE Undef

\* v?.k
OptGet(v, k) == IF Nullish(v) THEN Undef ELSE Get(v, k)

\* v?.[0]
OptFirst(v) ==
  CASE Nullish(v) -> Undef
    [] v.t = "array" -> IF Len(v.a) >= 1 THEN v.a[1] ELSE Undef
    [] v.t = "string" -> IF Len(v.s) >= 1 THEN JStr(<<v.s[1]>>) ELSE Undef
    [] OTHER -> Undef

DigitChars == <<"0", "1", "2", "3", "4", "5", "6", "7", "8", "9">>

RECURSIVE Digits(_)
Digits(n) ==
  IF n < 10 THEN <<DigitChars[n + 1]>>
  ELSE Digits(n \div 10) \o <<DigitChars[(n % 10) + 1]>>

\* `${v}` and v.toString() for the values a row field or a turn field holds
ToStr(v) ==
  CASE v.t = "string" -> v.s
    [] v.t = "null" -> <<"n", "u", "l", "l">>
    [] v.t = "undefined" -> <<"u", "n", "d", "e", "f", "i", "n", "e", "d">>
    [] v.t = "number" -> Digits(v.n)
    [] OTHER -> <<"[object Object]">>

WhiteSpace == {" ", "\n", "\t"}

RECURSIVE TrimStart(_)
TrimStart(s) ==
  IF s # <<>> /\ Head(s) \in WhiteSpace THEN TrimStart(Tail(s)) ELSE s

RECURSIVE TrimEnd(_)
TrimEnd(s) ==
  IF s # <<>> /\ s[Len(s)] \in WhiteSpace
  THEN TrimEnd(SubSeq(s, 1, Len(s) - 1)) ELSE s

\* s.trim()
Trim(s) == TrimEnd(TrimStart(s))

Min(a, b) == IF a < b THEN a ELSE b
Max(a, b) == IF a > b THEN a ELSE b

\* s.slice(0, n) for n >= 0, on a string or an array
SliceFront(s, n) == SubSeq(s, 1, Min(n, Len(s)))

\* s.slice(-n) for n > 0, on an array
SliceBack(s, n) == SubSeq(s, Max(Len(s) - n, 0) + 1, Len(s))

\* parts.join(sep)
RECURSIVE JoinUpTo(_, _, _)
JoinUpTo(parts, sep, n) ==
  IF n = 0 THEN <<>>
  ELSE IF n = 1 THEN parts[1]
  ELSE JoinUpTo(parts, sep, n - 1) \o sep \o parts[n]

Join(parts, sep) == JoinUpTo(parts, sep, Len(parts))

\* JSON.stringify of an object literal drops the keys whose value is undefined
JsonObject(f) == JObj([k \in {x \in DOMAIN f : f[x] # Undef} |-> f[k]])

\* --------------------------------------------------- response sites

\* const corsHeaders = {...}
corsHeaders ==
  ("Access-Control-Allow-Origin" :> "*") @@
  ("Access-Control-Allow-Methods" :> "POST, OPTIONS") @@
  ("Access-Control-Allow-Headers" :> "Content-Type")

NoBody == [t |-> "nobody"]

\* NextResponse.json(body, {status, headers}): the given headers plus the
\* content type of a JSON response
JsonResponse(status, body, headers) ==
  [status |-> status, body |-> JsonObject(body),
   headers |-> headers @@ ("content-type" :> "application/json")]

\* new Response(null, { status: 204, headers: corsHeaders })
OptionsResponse == [status |-> 204, body |-> NoBody, headers |-> corsHeaders]

MissingMessageResponse ==
  JsonResponse(400, [error |-> JStr(<<"Missing 'message'.">>)], corsHeaders)

MissingStoreEnvResponse ==
  JsonResponse(500, [error |-> JStr(<<"Missing Supabase env vars">>)], corsHeaders)

MissingKeyResponse ==
  JsonResponse(500, [error |-> JStr(<<"Missing GROQ_API_KEY">>)], corsHeaders)

EssentialsFailedResponse(err) ==
  JsonResponse(500, [error |-> JStr(<<"Supabase essentials query failed">>),
                     details |-> Get(err, "message")], corsHeaders)

\* SearchFailedResponse with the details of the essentials branch
SearchFailedResponseCopied(err) ==
  JsonResponse(500, [error |-> JStr(<<"Supabase search query failed">>),
                     details |-> OptGet(essentialsRes.error, "message")],
               corsHeaders)

SearchFailedResponse(err) ==
  JsonResponse(500, [error |-> JStr(<<"Supabase search query failed">>),
                     details |-> Get(err, "message")], corsHeaders)

\* CompletionFailedResponse reporting the status text instead of the body
CompletionFailedStatusText(errText) ==
  JsonResponse(500, [error |-> JStr(<<"Groq request failed">>),
                     details |-> JStr(<<"Internal Server Error">>)], corsHeaders)

CompletionFailedResponse(errText) ==
  JsonResponse(500, [error |-> JStr(<<"Groq request failed">>),
                     details |-> errText], corsHeaders)

\* NextResponse.json with no status is a 200
SuccessResponse(answer) ==
  JsonResponse(200, [response |-> answer], corsHeaders)

\* CatchResponse without the headers option
CatchResponseNoCors(msg) ==
  JsonResponse(500, [error |-> JStr(<<"Server error">>),
                     details |-> JStr(<<msg>>)], <<>>)

\* CatchResponse without the status option: NextResponse.json answers 200
CatchResponseNoStatus(msg) ==
  JsonResponse(200, [error |-> JStr(<<"Server error">>),
                     details |-> JStr(<<msg>>)], corsHeaders)

\* catch (e): e?.message ?? String(e); every exception of the model is an
\* Error whose message is msg
CatchResponse(msg) ==
  JsonResponse(500, [error |-> JStr(<<"Server error">>),
                     details |-> JStr(<<msg>>)], corsHeaders)

\* ------------------------------------------------------ retrieval merge

\* the composite key of the filter callback
RowKey(r) ==
  ToStr(Get(r, "project")) \o <<"|">> \o ToStr(Get(r, "type")) \o <<"|">> \o
  ToStr(Get(r, "title")) \o <<"|">> \o
  SliceFront(Coalesce(Get(r, "content"), JStr(<<>>)).s, KeyLen)

\* merged.filter(...) with the running set `seen`
RECURSIVE FilterSeen(_, _)
FilterSeen(rows, seen) ==
  IF rows = <<>> THEN <<>>
  ELSE LET key == RowKey(Head(rows))
       IN IF key \in seen THEN FilterSeen(Tail(rows), seen)
          ELSE <<Head(rows)>> \o FilterSeen(Tail(rows), seen \cup {key})

\* Merged with the two spreads in the other order
MergedEssentialsFirst(searchData, essentialsData) ==
  Coalesce(essentialsData, JArr(<<>>)).a \o Coalesce(searchData, JArr(<<>>)).a

\* [...(searchRes.data ?? []), ...(essentialsRes.data ?? [])]
Merged(searchData, essentialsData) ==
  Coalesce(searchData, JArr(<<>>)).a \o Coalesce(essentialsData, JArr(<<>>)).a

\* CapRows with the cap off by one
CapRowsOffByOne(rows) == SliceFront(rows, Cap + 1)

\* .slice(0, 16)
CapRows(rows) == SliceFront(rows, Cap)

\* const data = merged.filter(...).slice(0, 16)
MergeRows(searchData, essentialsData) ==
  CapRows(FilterSeen(Merged(searchData, essentialsData), {}))

\* ---------------------------------------------------- context formatter

TrimmedField(r, k) == Trim(ToStr(Coalesce(Get(r, k), JStr(<<>>))))

\* the one element of a singleton set
Only(S) == CHOOSE x \in S : TRUE

\* the map callback; idx is the 0-based index of the row
FormatRow(r, idx) ==
  Only({ Trim(<<"Source ">> \o Digits(idx + 1) \o <<" [">> \o type \o
              (IF title # <<>> THEN <<" | ">> \o title ELSE <<>>) \o
              (IF tags # <<>> THEN <<" | tags: ">> \o tags ELSE <<>>) \o
              <<"]", "\n">> \o content) :
           title \in {TrimmedField(r, "title")},
           type \in {TrimmedField(r, "type")},
           content \in {TrimmedField(r, "content")},
           tags \in {TrimmedField(r, "tags")} })

\* data.map(...).join("\n\n")
FormatContext(rows) ==
  Join([i \in 1..Len(rows) |-> FormatRow(rows[i], i - 1)], <<"\n", "\n">>)

\* ------------------------------------------------------ prompt assembler

SystemPrompt == <<"You are a portfolio assistant for Manthan Rase. ...">>

\* (m) => `${m.role}: ${m.content}`
HistoryLine(m) == ToStr(Get(m, "role")) \o <<": ">> \o ToStr(Get(m, "content"))

\* HistoryTail taking the first entries: .slice(0, 6)
HistoryHead(history) == SliceFront(Coalesce(history, JArr(<<>>)).a, HistKeep)

\* (conversationHistory ?? []).slice(-6)
HistoryTail(history) == SliceBack(Coalesce(history, JArr(<<>>)).a, HistKeep)

\* the history expression throws a TypeError when the value has no array
\* slice/map or when one of the mapped entries is null or undefined
HistoryThrows(history) ==
  LET h == Coalesce(history, JArr(<<>>))
  IN \/ h.t # "array"
     \/ \E i \in 1..Len(HistoryTail(history)) : Nullish(HistoryTail(history)[i])

HistoryLines(history) ==
  LET tail == HistoryTail(history)
  IN Join([i \in 1..Len(tail) |-> HistoryLine(tail[i])], <<"\n">>)

\* the content of the user message
UserContent(rows, context, history, message) ==
  <<"PORTFOLIO CONTEXT (rows: ">> \o Digits(Len(rows)) \o <<"):", "\n">> \o
  context \o <<"\n", "\n">> \o
  <<"Conversation history (brief):", "\n">> \o HistoryLines(history) \o
  <<"\n", "\n">> \o
  <<"User question:", "\n">> \o ToStr(message)

PromptMessages(rows, history, message) ==
  << [role |-> "system", content |-> SystemPrompt],
     [role |-> "user",
      content |-> UserContent(rows, FormatContext(rows), history, message)] >>

\* ---------------------------------------------------- answer extraction

FallbackAnswer == JStr(<<"I don't know based on my portfolio content.">>)

\* out?.choices?.[0]?.message?.content ?? "I don't know ..."
ExtractAnswer(out) ==
  Coalesce(OptGet(OptGet(OptFirst(OptGet(out, "choices")), "message"), "content"),
           FallbackAnswer)

\* ------------------------------------------------------------ inputs

Rep(c, n) == [i \in 1..n |-> c]

MkRow(project, type, title, content, tags) ==
  JObj([project |-> project, type |-> type, title |-> title,
        content |-> content, tags |-> tags])

\* Number of rows of the pool with pairwise different short fields.
NumRegular == 18

RegularRow(k) ==
  MkRow(JStr(<<"p">>), JStr(<<"b", "i", "o">>), JStr(<<"T">> \o Digits(k)),
        JStr(<<"c">> \o Digits(k)), JNull)

LongRow(last, tail, tags) ==
  MkRow(JStr(<<"p">>), JStr(<<"s", "k", "i", "l", "l", "s">>), JStr(<<"L">>),
        JStr(Rep("x", KeyLen - 1) \o <<last>> \o tail), tags)

\* Rows that meet the edges of the composite key: contents that differ only
\* after, or only at, character 60; a row equal to RegularRow(1) but for its
\* tags; null, "null" and empty projects; fields holding the separator; null
\* and empty contents; fields wrapped in white space.
SpecialRows ==
  << LongRow("x", <<"a">>, JStr(<<"t", "1">>)),
     LongRow("x", <<"b">>, JStr(<<"t", "2">>)),
     LongRow("y", <<"a">>, JStr(<<"t", "1">>)),
     MkRow(JStr(<<"p">>), JStr(<<"b", "i", "o">>), JStr(<<"T", "1">>),
           JStr(<<"c", "1">>), JStr(<<"n", "e", "w">>)),
     MkRow(JNull, JStr(<<"b", "i", "o">>), JStr(<<"N">>), JStr(<<"c">>), JNull),
     MkRow(JStr(<<"n", "u", "l", "l">>), JStr(<<"b", "i", "o">>), JStr(<<"N">>),
           JStr(<<"c">>), JStr(<<"s">>)),
     MkRow(JStr(<<>>), JStr(<<"b", "i", "o">>), JStr(<<"N">>), JStr(<<"c">>),
           JStr(<<"e">>)),
     MkRow(JStr(<<"a", "|", "b">>), JStr(<<"c">>), JStr(<<"S">>), JStr(<<"c">>),
           JNull),
     MkRow(JStr(<<"a">>), JStr(<<"b", "|", "c">>), JStr(<<"S">>), JStr(<<"c">>),
           JStr(<<"s">>)),
     MkRow(JStr(<<"p">>), JStr(<<"b", "i", "o">>), JStr(<<"E">>), JNull, JNull),
     MkRow(JStr(<<"p">>), JStr(<<"b", "i", "o">>), JStr(<<"E">>), JStr(<<>>),
           JStr(<<"e">>)),
     MkRow(JStr(<<"p">>), JStr(<<" ", "b", "i", "o", " ">>), JStr(<<" ", " ">>),
           JStr(<<" ", "w", " ", "s", "\n">>), JStr(<<" ">>)) >>

Pool == [k \in 1..NumRegular |-> RegularRow(k)] \o SpecialRows

\* n consecutive rows of the pool from row `start`, wrapping around
Window(start, n) ==
  [i \in 1..n |-> Pool[((start + i - 2) % Len(Pool)) + 1]]

\* Row lists a store read may return (.limit(12)): for the request handler a
\* few, for the merge alone every window of every length.
HandlerLists == {Window(s, n) : s \in {1, 1 + Limit}, n \in {0, 1, Limit}}

MergeLists ==
  {Window(1 + StartStep * k, n) : k \in 0..(NumStarts - 1), n \in 0..Limit}

StoreErrors == {JObj([message |-> JStr(<<"relation does not exist">>)]),
                JObj([message |-> JStr(<<"JWT expired">>)])}

Unissued == [st |-> "unissued", error |-> JNull, data |-> JNull]
Pending == [st |-> "pending", error |-> JNull, data |-> JNull]

\* What a store read settles to: { data, error } or, with the network gone
\* under a client that throws, a rejection.
ReadOutcomes(lists) ==
  {[st |-> "rejected", error |-> JNull, data |-> JNull]} \cup
  {[st |-> "fulfilled", error |-> e, data |-> JNull] : e \in StoreErrors} \cup
  {[st |-> "fulfilled", error |-> JNull, data |-> d] :
     d \in {JNull} \cup {JArr(l) : l \in lists}}

Turn(i) ==
  JObj([role |-> JStr(IF i % 2 = 1 THEN <<"user">> ELSE <<"assistant">>),
        content |-> JStr(<<"m">> \o Digits(i))])

Turns(n) == [i \in 1..n |-> Turn(i)]

\* conversationHistory is whatever the client put in the body
Histories ==
  {Undef, JNull, JStr(<<"h", "i">>), JArr(<<Turn(1), JNull>>)} \cup
  {JArr(Turns(n)) : n \in 0..MaxHist}

ValidMessage == JStr(<<" ", "h", "i", "?">>)

Messages == {Undef, JNull, JNum(5), JStr(<<>>), ValidMessage}

Malformed == [t |-> "malformed"]

MkBody(message, history) ==
  JsonObject([message |-> message, conversationHistory |-> history])

\* request bodies: not JSON at all, JSON null, a JSON number, and objects
Bodies ==
  {Malformed, JNull, JNum(5)} \cup
  {MkBody(m, h) : m \in Messages, h \in Histories}

Set == JStr(<<"set">>)

Envs == [url : {Undef, Set}, anonKey : {Undef, Set}, groqKey : {Undef, Set}]

Invalid == [t |-> "invalid"]

Choice(content) == JObj([index |-> JNum(0), message |-> JObj(content)])

\* bodies of the completion service: raw text and what JSON.parse makes of it
CompletionBodies ==
  { [readable |-> FALSE, raw |-> <<>>, json |-> Invalid],
    [readable |-> TRUE, raw |-> <<>>, json |-> Invalid],
    [readable |-> TRUE, raw |-> <<"Bad Gateway">>, json |-> Invalid],
    [readable |-> TRUE, raw |-> <<"null">>, json |-> JNull],
    [readable |-> TRUE, raw |-> <<"{error}">>,
     json |-> JObj([error |-> JObj([message |-> JStr(<<"rate limit">>)])])],
    [readable |-> TRUE, raw |-> <<"{choices:[]}">>,
     json |-> JObj([choices |-> JArr(<<>>)])],
    [readable |-> TRUE, raw |-> <<"{choices:[{index}]}">>,
     json |-> JObj([choices |-> JArr(<<JObj([index |-> JNum(0)])>>)])],
    [readable |-> TRUE, raw |-> <<"{choices:[{message:{role}}]}">>,
     json |-> JObj([choices |-> JArr(<<Choice([role |-> JStr(<<"assistant">>)])>>)])],
    [readable |-> TRUE, raw |-> <<"{choices:[{message:{content:null}}]}">>,
     json |-> JObj([choices |-> JArr(<<Choice([content |-> JNull])>>)])],
    [readable |-> TRUE, raw |-> <<"{choices:[{message:{content:''}}]}">>,
     json |-> JObj([choices |-> JArr(<<Choice([content |-> JStr(<<>>)])>>)])],
    [readable |-> TRUE, raw |-> <<"{choices:[{message:{content:A}}]}">>,
     json |-> JObj([choices |-> JArr(<<Choice([content |-> JStr(<<"A">>)])>>)])],
    [readable |-> TRUE, raw |-> <<"{choices:[{message:{content:A}},{message:{content:B}}]}">>,
     json |-> JObj([choices |-> JArr(<<Choice([content |-> JStr(<<"A">>)]),
                                      Choice([content |-> JStr(<<"B">>)])>>)])] }

NoResp == [st |-> "unissued", ok |-> FALSE, body |-> Invalid]
PendingResp == [st |-> "pending", ok |-> FALSE, body |-> Invalid]

\* fetch rejects (network) or resolves to a response with a status and a body
FetchOutcomes ==
  {[st |-> "rejected", ok |-> FALSE, body |-> Invalid]} \cup
  {[st |-> "fulfilled", ok |-> o, body |-> b] :
     o \in BOOLEAN, b \in CompletionBodies}

NoResponse == [status |-> 0, body |-> NoBody, headers |-> <<>>]

\* ----------------------------------------------------------- the handler

TypeOK ==
  /\ pc \in {"start", "awaitBody", "awaitReads", "awaitFetch", "awaitText",
             "awaitJson", "done"}
  /\ method \in {"OPTIONS", "POST"}
  /\ storeReads \in 0..2
  /\ fetchCalls \in Nat
  /\ nResponses \in Nat

InitRest ==
  /\ essentialsRes = Unissued
  /\ searchRes = Unissued
  /\ data = Undef
  /\ messages = <<>>
  /\ resp = NoResp
  /\ response = NoResponse
  /\ storeReads = 0
  /\ fetchCalls = 0
  /\ nResponses = 0

Init ==
  /\ pc = "start"
  /\ method \in {"OPTIONS", "POST"}
  /\ reqBody \in (IF method = "OPTIONS" THEN {Malformed} ELSE Bodies)
  /\ env \in Envs
  /\ InitRest

\* return <a response>: the one terminal step of an invocation
Respond(r) ==
  /\ response' = r
  /\ nResponses' = nResponses + 1
  /\ pc' = "done"

\* export async function OPTIONS()
OPTIONS ==
  /\ pc = "start"
  /\ method = "OPTIONS"
  /\ Respond(OptionsResponse)
  /\ UNCHANGED <<method, reqBody, env, essentialsRes, searchRes, data,
                 messages, resp, storeReads, fetchCalls>>

\* export async function POST(req): up to `await req.json()`
POST ==
  /\ pc = "start"
  /\ method = "POST"
  /\ pc' = "awaitBody"
  /\ UNCHANGED <<method, reqBody, env, essentialsRes, searchRes, data,
                 messages, resp, response, storeReads, fetchCalls, nResponses>>

\* MessageInvalid without the typeof test
MessageFalsy(message) == ~Truthy(message)

\* !message || typeof message !== "string"
MessageInvalid(message) == ~Truthy(message) \/ message.t # "string"

\* from the body to `await Promise.all([...])`: destructuring, validation,
\* configuration, and the two reads handed to Promise.all together
Validate ==
  /\ pc = "awaitBody"
  /\ IF reqBody = Malformed
     THEN /\ Respond(CatchResponse("Unexpected token in JSON"))
          /\ UNCHANGED <<essentialsRes, searchRes, storeReads>>
     ELSE IF Nullish(reqBody)
     THEN /\ Respond(CatchResponse("Cannot destructure property 'message'"))
          /\ UNCHANGED <<essentialsRes, searchRes, storeReads>>
     ELSE IF MessageInvalid(Get(reqBody, "message"))
     THEN /\ Respond(MissingMessageResponse)
          /\ UNCHANGED <<essentialsRes, searchRes, storeReads>>
     ELSE IF ~Truthy(env.url) \/ ~Truthy(env.anonKey)
     THEN /\ Respond(MissingStoreEnvResponse)
          /\ UNCHANGED <<essentialsRes, searchRes, storeReads>>
     ELSE IF ~Truthy(env.groqKey)
     THEN /\ Respond(MissingKeyResponse)
          /\ UNCHANGED <<essentialsRes, searchRes, storeReads>>
     ELSE /\ essentialsRes' = Pending
          /\ searchRes' = Pending
          /\ storeReads' = storeReads + 2
          /\ pc' = "awaitReads"
          /\ UNCHANGED <<response, nResponses>>
  /\ UNCHANGED <<method, reqBody, env, data, messages, resp, fetchCalls>>

\* the essentials read settles (the store answers, or the call rejects)
EssentialsSettles ==
  /\ essentialsRes.st = "pending"
  /\ essentialsRes' \in ReadOutcomes(HandlerLists)
  /\ UNCHANGED <<pc, method, reqBody, env, searchRes, data, messages, resp,
                 response, storeReads, fetchCalls, nResponses>>

\* the search read settles
SearchSettles ==
  /\ searchRes.st = "pending"
  /\ searchRes' \in ReadOutcomes(HandlerLists)
  /\ UNCHANGED <<pc, method, reqBody, env, essentialsRes, data, messages, resp,
                 response, storeReads, fetchCalls, nResponses>>

\* ReadsJoined as Promise.race: resumes with the first read to settle
ReadsRaced(e, s) ==
  \/ e.st \in {"fulfilled", "rejected"}
  \/ s.st \in {"fulfilled", "rejected"}

\* await Promise.all([essentialsPromise, searchPromise]) resumes: it rejects
\* with the first rejection, and fulfils once both reads have fulfilled
ReadsJoined(e, s) ==
  \/ e.st = "rejected"
  \/ s.st = "rejected"
  \/ e.st = "fulfilled" /\ s.st = "fulfilled"

\* from Promise.all to `await fetch(...)`: the error checks, the merge, the
\* context, the prompt, and the one completion call
AfterReads ==
  /\ pc = "awaitReads"
  /\ ReadsJoined(essentialsRes, searchRes)
  /\ IF essentialsRes.st = "rejected" \/ searchRes.st = "rejected"
     THEN /\ Respond(CatchResponse("fetch failed"))
          /\ UNCHANGED <<data, messages, resp, fetchCalls>>
     ELSE IF Truthy(essentialsRes.error)
     THEN /\ Respond(EssentialsFailedResponse(essentialsRes.error))
          /\ UNCHANGED <<data, messages, resp, fetchCalls>>
     ELSE IF Truthy(searchRes.error)
     THEN /\ Respond(SearchFailedResponse(searchRes.error))
          /\ UNCHANGED <<data, messages, resp, fetchCalls>>
     ELSE \E rows \in {MergeRows(searchRes.data, essentialsRes.data)},
             history \in {Get(reqBody, "conversationHistory")} :
             /\ data' = JArr(rows)
             /\ IF HistoryThrows(history)
                THEN /\ Respond(CatchResponse("Cannot read properties"))
                     /\ UNCHANGED <<messages, resp, fetchCalls>>
                ELSE /\ messages' =
                          PromptMessages(rows, history, Get(reqBody, "message"))
                     /\ resp' = PendingResp
                     /\ fetchCalls' = fetchCalls + 1
                     /\ pc' = "awaitFetch"
                     /\ UNCHANGED <<response, nResponses>>
  /\ UNCHANGED <<method, reqBody, env, essentialsRes, searchRes, storeReads>>

\* the completion service answers, or the call rejects
FetchSettles ==
  /\ resp.st = "pending"
  /\ resp' \in FetchOutcomes
  /\ UNCHANGED <<pc, method, reqBody, env, essentialsRes, searchRes, data,
                 messages, response, storeReads, fetchCalls, nResponses>>

\* `await fetch(...)` resumes: if (!resp.ok) await resp.text() else
\* await resp.json()
AfterFetch ==
  /\ pc = "awaitFetch"
  /\ resp.st \in {"fulfilled", "rejected"}
  /\ IF resp.st = "rejected"
     THEN Respond(CatchResponse("fetch failed"))
     ELSE /\ pc' = IF ~resp.ok THEN "awaitText" ELSE "awaitJson"
          /\ UNCHANGED <<response, nResponses>>
  /\ UNCHANGED <<method, reqBody, env, essentialsRes, searchRes, data,
                 messages, resp, storeReads, fetchCalls>>

\* `await resp.text()` resumes: the "Groq request failed" response
AfterText ==
  /\ pc = "awaitText"
  /\ IF ~resp.body.readable
     THEN Respond(CatchResponse("body stream error"))
     ELSE Respond(CompletionFailedResponse(JStr(resp.body.raw)))
  /\ UNCHANGED <<method, reqBody, env, essentialsRes, searchRes, data,
                 messages, resp, storeReads, fetchCalls>>

\* `await resp.json()` resumes: the answer, or the fallback sentence
AfterJson ==
  /\ pc = "awaitJson"
  /\ IF ~resp.body.readable \/ resp.body.json = Invalid
     THEN Respond(CatchResponse("Unexpected end of JSON input"))
     ELSE Respond(SuccessResponse(ExtractAnswer(resp.body.json)))
  /\ UNCHANGED <<method, reqBody, env, essentialsRes, searchRes, data,
                 messages, resp, storeReads, fetchCalls>>

Next ==
  \/ OPTIONS
  \/ POST
  \/ Validate
  \/ EssentialsSettles
  \/ SearchSettles
  \/ AfterReads
  \/ FetchSettles
  \/ AfterFetch
  \/ AfterText
  \/ AfterJson

Spec == Init /\ [][Next]_vars

\* Every step is a continuation the runtime schedules or an external call
\* that returns.
FairSpec == Spec /\ WF_vars(Next)

\* The merge alone: a valid request whose two reads have both fulfilled with
\* windows of the pool, and the step that merges them.
MergeInit ==
  /\ pc = "awaitReads"
  /\ method = "POST"
  /\ reqBody = MkBody(ValidMessage, JArr(Turns(2)))
  /\ env = [url |-> Set, anonKey |-> Set, groqKey |-> Set]
  /\ essentialsRes \in
       {[st |-> "fulfilled", error |-> JNull, data |-> JArr(l)] : l \in MergeLists}
  /\ searchRes \in
       {[st |-> "fulfilled", error |-> JNull, data |-> JArr(l)] : l \in MergeLists}
  /\ data = Undef
  /\ messages = <<>>
  /\ resp = NoResp
  /\ response = NoResponse
  /\ storeReads = 2
  /\ fetchCalls = 0
  /\ nResponses = 0

MergeNext == AfterReads

MergeSpec == MergeInit /\ [][MergeNext]_vars

\* ------------------------------------------------------------- claims

\* the rows the two reads returned, search results first
Concatenation ==
  Coalesce(searchRes.data, JArr(<<>>)).a \o Coalesce(essentialsRes.data, JArr(<<>>)).a

\* (project, type, title, first 60 characters of content) of a row
RowTuple(r) ==
  << Get(r, "project"), Get(r, "type"), Get(r, "title"),
     IF Nullish(Get(r, "content")) THEN <<>>
     ELSE SubSeq(Get(r, "content").s, 1, Min(60, Len(Get(r, "content").s))) >>

\* positions of the concatenation, and of the merged output, holding tuple t
InWith(t) == {i \in 1..Len(Concatenation) : RowTuple(Concatenation[i]) = t}
OutWith(t) == {k \in 1..Len(data.a) : RowTuple(data.a[k]) = t}

FirstOf(S) == CHOOSE i \in S : \A j \in S : i <= j

\* tuples that two or more rows of the concatenation share
SharedTuples ==
  {RowTuple(Concatenation[i]) : i \in 1..Len(Concatenation)} \cap
  {t \in {RowTuple(Concatenation[i]) : i \in 1..Len(Concatenation)} :
     Cardinality(InWith(t)) >= 2}

\* key strings of the rows before position i of the concatenation
KeysBefore(i) == {RowKey(Concatenation[m]) : m \in 1..(i - 1)}

SourceCount(s) == Cardinality({i \in 1..Len(s) : s[i] = "Source "})

\* C2: the merged rows, and the blocks formatted into the prompt from them,
\* are never more than 16.
C2_AtMostSixteen ==
  /\ data # Undef => Len(data.a) <= 16
  /\ messages # <<>> => SourceCount(messages[2].content) <= 16

\* two full reads holding more than 16 distinct keys, cut to 16
C2_Witness ==
  /\ data # Undef
  /\ messages # <<>>
  /\ Len(searchRes.data.a) = Limit
  /\ Len(essentialsRes.data.a) = Limit
  /\ Cardinality(KeysBefore(Len(Concatenation) + 1)) > 16
  /\ Len(data.a) = 16
  /\ SourceCount(messages[2].content) = 16

\* fields of the body of the response
ResponseField(k) == OptGet(response.body, k)

GenericServerError ==
  /\ response.status = 500
  /\ response.body.t = "object"
  /\ DOMAIN response.body.f = {"error", "details"}
  /\ ResponseField("error") = JStr(<<"Server error">>)

NoExternalCall ==
  /\ essentialsRes.st = "unissued"
  /\ searchRes.st = "unissued"
  /\ resp.st = "unissued"
  /\ storeReads = 0
  /\ fetchCalls = 0

\* the body parsed to a value that can be destructured
BodyParsed == reqBody # Malformed /\ reqBody.t \notin {"null", "undefined"}

MessageMissingOrNotString ==
  BodyParsed /\ OptGet(reqBody, "message").t # "string"

ConfigMissing ==
  Undef \in {env.url, env.anonKey, env.groqKey}

\* C3: a request whose message is missing or not a string is answered 400,
\* and one whose message passes (the message is tested first) but whose
\* configuration is missing is answered 500;
\* either response comes with no store read and no completion call issued,
\* and none is issued in any later state.
C3_ValidationBeforeCalls ==
  /\ (method = "POST" /\ MessageMissingOrNotString) =>
       /\ NoExternalCall
       /\ pc = "done" => response.status = 400
  /\ (method = "POST" /\ BodyParsed /\ OptGet(reqBody, "message").t = "string"
        /\ OptGet(reqBody, "message").s # <<>> /\ ConfigMissing) =>
       /\ NoExternalCall
       /\ pc = "done" => response.status = 500

\* a numeric message answered 400 with nothing issued
C3_Witness ==
  /\ pc = "done"
  /\ BodyParsed
  /\ OptGet(reqBody, "message") = JNum(5)
  /\ ~ConfigMissing
  /\ response.status = 400
  /\ NoExternalCall

ReadFailed(r) == r.st = "fulfilled" /\ r.error # JNull

\* C4: once a store read has completed with an error no completion call is
\* made, the response is a 500, and its details are the message of the error
\* of the read its error field names.
C4_StoreErrorSurfaced ==
  (ReadFailed(essentialsRes) \/ ReadFailed(searchRes)) =>
    /\ fetchCalls = 0
    /\ resp.st = "unissued"
    /\ pc = "done" =>
         /\ response.status = 500
         /\ "response" \notin DOMAIN response.body.f
         /\ (essentialsRes.st = "fulfilled" /\ searchRes.st = "fulfilled") =>
              ResponseField("error") \in
                {JStr(<<"Supabase essentials query failed">>),
                 JStr(<<"Supabase search query failed">>)}
         /\ ResponseField("error") = JStr(<<"Supabase essentials query failed">>) =>
              /\ ReadFailed(essentialsRes)
              /\ ResponseField("details") = essentialsRes.error.f.message
         /\ ResponseField("error") = JStr(<<"Supabase search query failed">>) =>
              /\ ReadFailed(searchRes)
              /\ ResponseField("details") = searchRes.error.f.message

\* the search read alone failed, and the response carries its message
C4_Witness ==
  /\ pc = "done"
  /\ ReadFailed(searchRes)
  /\ essentialsRes.st = "fulfilled"
  /\ ~ReadFailed(essentialsRes)
  /\ response.status = 500
  /\ ResponseField("error") = JStr(<<"Supabase search query failed">>)
  /\ ResponseField("details") = JStr(<<"JWT expired">>)
  /\ fetchCalls = 0

\* C5: a non-2xx answer of the completion service ends in a 500 that is no
\* success envelope, after exactly one call; when the body text could be read
\* the details are that text.
C5_CompletionErrorSurfaced ==
  (pc = "done" /\ resp.st = "fulfilled" /\ ~resp.ok) =>
    /\ response.status = 500
    /\ "response" \notin DOMAIN response.body.f
    /\ "error" \in DOMAIN response.body.f
    /\ fetchCalls = 1
    /\ resp.body.readable =>
         /\ ResponseField("error") = JStr(<<"Groq request failed">>)
         /\ ResponseField("details") = JStr(resp.body.raw)

\* a non-2xx answer with a body text, relayed in details
C5_Witness ==
  /\ pc = "done"
  /\ resp.st = "fulfilled"
  /\ ~resp.ok
  /\ resp.body.raw = <<"Bad Gateway">>
  /\ response.status = 500
  /\ ResponseField("details") = JStr(<<"Bad Gateway">>)

\* the first choice's message content, when the parsed answer has one
AnswerContent(out) ==
  IF /\ out.t = "object" /\ "choices" \in DOMAIN out.f
     /\ out.f.choices.t = "array" /\ Len(out.f.choices.a) >= 1
     /\ out.f.choices.a[1].t = "object"
     /\ "message" \in DOMAIN out.f.choices.a[1].f
     /\ out.f.choices.a[1].f.message.t = "object"
     /\ "content" \in DOMAIN out.f.choices.a[1].f.message.f
  THEN out.f.choices.a[1].f.message.f.content
  ELSE Undef

\* no choices, no message, or a content that is absent, null or empty
NoAnswerText(out) ==
  AnswerContent(out) \in {Undef, JNull, JStr(<<>>)}

\* C6, as stated: a success answer of the completion service with no answer
\* text (no choices, no message, absent or empty content) ends in a 200 whose
\* response is the fallback sentence.
C6_FallbackWhenNoText ==
  (pc = "done" /\ resp.st = "fulfilled" /\ resp.ok /\ resp.body.readable
     /\ resp.body.json # Invalid /\ NoAnswerText(resp.body.json)) =>
    /\ response.status = 200
    /\ ResponseField("response") =
         JStr(<<"I don't know based on my portfolio content.">>)

\* C7: every response carries the three cross-origin headers with their
\* values, and the preflight response is a 204 without a body.
C7_CorsOnEveryResponse ==
  nResponses > 0 =>
    /\ "Access-Control-Allow-Origin" \in DOMAIN response.headers
    /\ "Access-Control-Allow-Methods" \in DOMAIN response.headers
    /\ "Access-Control-Allow-Headers" \in DOMAIN response.headers
    /\ response.headers["Access-Control-Allow-Origin"] = "*"
    /\ response.headers["Access-Control-Allow-Methods"] = "POST, OPTIONS"
    /\ response.headers["Access-Control-Allow-Headers"] = "Content-Type"
    /\ method = "OPTIONS" => response.status = 204 /\ response.body = NoBody

\* the response of the top-level catch, with its headers
C7_Witness ==
  /\ pc = "done"
  /\ method = "POST"
  /\ ResponseField("error") = JStr(<<"Server error">>)
  /\ response.headers["Access-Control-Allow-Origin"] = "*"

\* the conversation history of the body, when it is an array
HistoryArray ==
  IF OptGet(reqBody, "conversationHistory").t = "array"
  THEN OptGet(reqBody, "conversationHistory").a ELSE <<>>

\* the number of history entries the prompt shows
ShownTurns == IF Len(HistoryArray) < 6 THEN Len(HistoryArray) ELSE 6

\* line i of the history block: entry i of the last ShownTurns entries
ShownLine(i) ==
  LET m == HistoryArray[Len(HistoryArray) - ShownTurns + i]
  IN m.f.role.s \o <<": ">> \o m.f.content.s

\* C8: the user message sent to the completion service is the context header
\* with the row count, the formatted context, the last 6 history entries (all
\* when fewer, none when absent) in order as `role: content` lines, and the
\* question text; with no rows the context is empty and the question stays.
C8_UserMessageLayout ==
  fetchCalls >= 1 =>
    /\ Len(messages) = 2
    /\ messages[1].role = "system"
    /\ messages[2].role = "user"
    /\ messages[2].content =
         <<"PORTFOLIO CONTEXT (rows: ">> \o Digits(Len(data.a)) \o <<"):", "\n">> \o
         FormatContext(data.a) \o
         <<"\n", "\n", "Conversation history (brief):", "\n">> \o
         Join([i \in 1..ShownTurns |-> ShownLine(i)], <<"\n">>) \o
         <<"\n", "\n", "User question:", "\n">> \o
         OptGet(reqBody, "message").s
    /\ Len(data.a) = 0 =>
         /\ FormatContext(data.a) = <<>>
         /\ SubSeq(messages[2].content, 1, 6) =
              <<"PORTFOLIO CONTEXT (rows: ", "0", "):", "\n", "\n", "\n">>

\* a history of seven turns and no rows: turns 2..7 are shown
C8_Witness ==
  /\ fetchCalls = 1
  /\ Len(HistoryArray) = 7
  /\ Len(data.a) = 0
  /\ ShownLine(1) = <<"assistant", ": ", "m", "2">>

\* the value given as conversation history makes the history expression throw
HistoryUnusable ==
  LET h == OptGet(reqBody, "conversationHistory")
  IN /\ h.t \notin {"undefined", "null"}
     /\ \/ h.t # "array"
        \/ \E i \in 1..ShownTurns :
             HistoryArray[Len(HistoryArray) - ShownTurns + i].t
               \in {"undefined", "null"}

\* a stage of the request threw
StageThrew ==
  \/ ~BodyParsed
  \/ essentialsRes.st = "rejected"
  \/ searchRes.st = "rejected"
  \/ data # Undef /\ HistoryUnusable
  \/ resp.st = "rejected"
  \/ resp.st = "fulfilled" /\ ~resp.body.readable
  \/ resp.st = "fulfilled" /\ resp.ok /\ resp.body.json = Invalid

SuccessEnvelope ==
  /\ response.status = 200
  /\ response.body.t = "object"
  /\ DOMAIN response.body.f = {"response"}

ErrorEnvelope ==
  /\ response.status \in {400, 500}
  /\ response.body.t = "object"
  /\ "error" \in DOMAIN response.body.f
  /\ DOMAIN response.body.f \subseteq {"error", "details"}

C9_OneEnvelope ==
  /\ nResponses <= 1
  /\ pc = "done" <=> nResponses = 1
  /\ nResponses = 0 => response = NoResponse
  /\ (pc = "done" /\ method = "POST") =>
       /\ SuccessEnvelope \/ ErrorEnvelope
       /\ StageThrew => GenericServerError

C9_NothingAfterResponse ==
  pc = "done" =>
    UNCHANGED <<pc, response, nResponses, data, messages, resp, storeReads,
                fetchCalls>>

\* C9: an invocation whose external calls return ends in one terminal
\* response, a success or an error envelope; a stage that throws ends in the
\* generic 500 envelope; nothing of the handler runs after the response.
C9_SingleTerminalResponse ==
  /\ []C9_OneEnvelope
  /\ [][C9_NothingAfterResponse]_vars
  /\ <>(pc = "done")

\* prompt assembly threw on a history that is no array, after the merge
C9_Witness ==
  /\ pc = "done"
  /\ data # Undef
  /\ OptGet(reqBody, "conversationHistory").t = "string"
  /\ GenericServerError
  /\ nResponses = 1

\* C10: the two reads are issued together and before the join; rows are
\* merged only once both reads have fulfilled, and the merged rows stand for
\* the rows of both reads (up to the cap); the completion call is made at
\* most once, and only with both reads fulfilled without error.
C10_JoinBeforeMerge ==
  /\ essentialsRes.st = "unissued" <=> searchRes.st = "unissued"
  /\ storeReads \in {0, 2}
  /\ storeReads = 2 <=> essentialsRes.st # "unissued"
  /\ pc \in {"awaitReads", "awaitFetch", "awaitText", "awaitJson"} => storeReads = 2
  /\ data # Undef =>
       /\ essentialsRes.st = "fulfilled" /\ searchRes.st = "fulfilled"
       /\ essentialsRes.error = JNull /\ searchRes.error = JNull
       /\ \/ Len(data.a) = 16
          \/ \A i \in 1..Len(Concatenation) :
               \E k \in 1..Len(data.a) :
                 RowKey(data.a[k]) = RowKey(Concatenation[i])
  /\ fetchCalls <= 1
  /\ fetchCalls = 1 <=> resp.st # "unissued"
  /\ fetchCalls = 1 =>
       /\ data # Undef
       /\ essentialsRes.st = "fulfilled" /\ searchRes.st = "fulfilled"
       /\ essentialsRes.error = JNull /\ searchRes.error = JNull

\* the completion call made over rows of both reads
C10_Witness ==
  /\ fetchCalls = 1
  /\ pc = "awaitFetch"
  /\ essentialsRes.st = "fulfilled" /\ searchRes.st = "fulfilled"
  /\ essentialsRes.data # JNull /\ searchRes.data # JNull
  /\ Len(essentialsRes.data.a) = 1 /\ Len(searchRes.data.a) = 1
  /\ Len(data.a) = 2

\* a field as text, an absent or null field counting as the empty string
FieldText(v) == IF v.t \in {"undefined", "null"} THEN <<>> ELSE v.s

\* the composite-key tuple of a row, absent and null fields as empty strings
CompositeTuple(r) ==
  << FieldText(Get(r, "project")), FieldText(Get(r, "type")),
     FieldText(Get(r, "title")),
     SubSeq(FieldText(Get(r, "content")), 1,
            Min(60, Len(FieldText(Get(r, "content"))))) >>

\* positions of the concatenation whose tuple no earlier row has
FirstOfTuple ==
  {i \in 1..Len(Concatenation) :
     \A j \in 1..(i - 1) :
       CompositeTuple(Concatenation[j]) # CompositeTuple(Concatenation[i])}

\* the k-th of those positions
NthFirstOfTuple(k) ==
  CHOOSE i \in FirstOfTuple : Cardinality({j \in FirstOfTuple : j <= i}) = k

\* rows with equal tuples are collapsed to the first of them
C11_EqualTuplesCollapse ==
  data # Undef =>
    \A k, l \in 1..Len(data.a) :
      k # l => CompositeTuple(data.a[k]) # CompositeTuple(data.a[l])

\* rows with different tuples are never collapsed into one another
C11_DifferentTuplesKept ==
  data # Undef =>
    \/ Len(data.a) = 16
    \/ \A i \in 1..Len(Concatenation) :
         \E k \in 1..Len(data.a) :
           CompositeTuple(data.a[k]) = CompositeTuple(Concatenation[i])

\* C11, as stated: the merged rows are the rows of the concatenation that are
\* the first of their composite-key tuple (an absent or null field counting as
\* the empty string), in order, cut to 16: equal tuples collapse to one and
\* different tuples never collapse.
C11_DuplicatesExactlyByTuple ==
  data # Undef =>
    /\ Len(data.a) = Min(Cardinality(FirstOfTuple), 16)
    /\ \A k \in 1..Len(data.a) : data.a[k] = Concatenation[NthFirstOfTuple(k)]

\* the request passed validation and both reads succeeded, and the handler
\* has gone on from the join
ReadsSucceededAndJoined ==
  /\ essentialsRes.st = "fulfilled" /\ essentialsRes.error = JNull
  /\ searchRes.st = "fulfilled" /\ searchRes.error = JNull
  /\ pc # "awaitReads"

\* C12, as stated: for every request that passed validation and whose two
\* reads both succeeded, whatever rows were read and whatever the client sent
\* as conversationHistory, merging, formatting and prompt assembly do not
\* fail: the completion call is made, with the assembled messages, and no
\* response is produced before it is.
C12_StagesCannotFail ==
  ReadsSucceededAndJoined =>
    /\ fetchCalls = 1
    /\ messages # Undef
    /\ resp.st # "unissued"

====
